---- MODULE Spec2Model ----
(***************************************************************************)
(* A model of the Yahoo Finance MCP server (src/src/index.ts): the         *)
(* fixed-window rate limiter, the retrying fetch wrapper and the three     *)
(* tool pipelines behind the CallToolRequestSchema handler.                *)
(*                                                                         *)
(* Time.  The code reads Date.now() and only ever uses the differences     *)
(* now - requestCount.lastMinuteReset and now - requestCount.lastDayReset, *)
(* each compared with a threshold.  The model therefore keeps these two    *)
(* differences (sinceMinuteReset, sinceDayReset, in milliseconds) instead  *)
(* of the three absolute times; a difference that has passed its           *)
(* threshold is kept at threshold + 1, which the code cannot tell from     *)
(* any larger value.                                                       *)
(***************************************************************************)
EXTENDS Integers, Sequences, FiniteSets, TLC

\* ------------------------------------------------------------------------
\* Program constants
\* ------------------------------------------------------------------------
perMinute == 20
perDay == 500
MinuteMs == 60000
DayMs == 86400000
maxRetries == 3

\* ------------------------------------------------------------------------
\* Bounds of the model
\* ------------------------------------------------------------------------
\* Number of MinuteMs clock steps explored after a day-window anchor before
\* the clock may only jump to the edge of the day window.
MaxQuietTicks == 50
\* Number of handler invocations that may overlap.
NumHandlers == 2
\* Number of tool calls a behaviour of the server receives.
MaxCalls == 2
\* Number of clock steps explored for the checks of one 60-second interval.
MaxWindowTicks == 4
\* Length of the longest history series given to formatStockHistory.
MaxSeriesLen == 120
\* The day (since the epoch) of the first point of a history series.
FirstDay == 20000

VARIABLES
    requestCount,       \* [minute, day]: the two counters of requestCount
    sinceMinuteReset,   \* now - requestCount.lastMinuteReset (ms, saturated)
    sinceDayReset,      \* now - requestCount.lastDayReset (ms, saturated)
    okMinute,           \* history: checks that passed since the last minute-window reset
    okDay,              \* history: checks that passed since the last day-window reset
    lastCheck,          \* history: "ok" | "limited" when the latest step called
                        \* checkRateLimit, by its outcome, and "none" when it did not
    pc,                 \* per handler: "idle" | "fetch" (awaiting fetch) | "backoff" (awaiting the timer)
    call,               \* per handler: the request being served
    retries,            \* per handler: fetchWithRetry's retries
    lastError,          \* per handler: fetchWithRetry's lastError ("" is null)
    loopIndex,          \* per handler: position of fetchMarketData's for loop in indices
    indexResults,       \* per handler: fetchMarketData's indexResults
    attempts,           \* history, per handler: outcomes of the attempts of a bare fetchWithRetry call
    waits,              \* history, per handler: backoff waits (ms) of a bare fetchWithRetry call
    sent,               \* history, per handler: did the call issue an HTTP request
    asked,              \* history, per handler: the index symbols the call has fetched
    good,               \* history, per handler: the index symbols whose fetch ended with
                        \* a 2xx response carrying a result and its meta block
    refusedOnly,        \* history, per handler: every fetchWithRetry of the call so far
                        \* returned a response that is neither 2xx nor 429
    fetched,            \* history, per handler: what a bare fetchWithRetry call ended with
    resp,               \* per handler: what the latest finished call returned to the client
    started,            \* history: number of tool calls received
    formatIn,           \* the arguments of a formatter called on its own
    formatOut,          \* the text that call returned (<<>> before it)
    recent,             \* history: the ages (ms) of the checks that passed in the last
                        \* 60 seconds, oldest first (kept by TimedCheck and TimedTick)
    clockSteps          \* history: number of steps of the clock so far (TimedTick)

rateVars == <<requestCount, sinceMinuteReset, sinceDayReset, okMinute, okDay>>
fetchVars == <<pc, retries, lastError, attempts, waits, fetched>>
callVars == <<call, loopIndex, indexResults, sent, asked, good, refusedOnly, resp, started>>
formatVars == <<formatIn, formatOut>>
windowVars == <<recent, clockSteps>>
vars == <<rateVars, lastCheck, fetchVars, callVars, formatVars, windowVars>>

\* ------------------------------------------------------------------------
\* The clock
\* ------------------------------------------------------------------------
\* An elapsed time after d more milliseconds, kept at limit + 1 once past limit.
Advance(age, d, limit) == IF age + d > limit THEN limit + 1 ELSE age + d

\* The clock steps the model explores from the current state: one minute
\* window's length (so that a window is exactly at its edge after one step and
\* past it after two), and the step that brings the day window exactly to its
\* edge.
ClockSteps ==
    (IF sinceDayReset < MaxQuietTicks * MinuteMs \/ sinceDayReset >= DayMs
        THEN {MinuteMs} ELSE {})
    \cup (IF sinceDayReset < DayMs THEN {DayMs - sinceDayReset} ELSE {})

\* Date.now() moves on by d milliseconds while no code runs.
Tick(d) ==
    /\ d > 0
    /\ sinceMinuteReset' = Advance(sinceMinuteReset, d, MinuteMs)
    /\ sinceDayReset' = Advance(sinceDayReset, d, DayMs)
    /\ lastCheck' = "none"
    /\ UNCHANGED <<requestCount, okMinute, okDay, fetchVars, callVars, formatVars, windowVars>>

\* The ages of seq after d more milliseconds, those past limit dropped.
RECURSIVE Aged(_, _, _)
Aged(seq, d, limit) ==
    IF seq = <<>> THEN <<>>
    ELSE IF Head(seq) + d > limit THEN Aged(Tail(seq), d, limit)
    ELSE <<Head(seq) + d>> \o Aged(Tail(seq), d, limit)

\* The clock steps explored for the checks of one 60-second interval: to the
\* next millisecond, half a minute window and a whole one.
WindowClockSteps == {1, MinuteMs \div 2, MinuteMs}

\* Date.now() moves on by d milliseconds, the passed checks ageing with it.
TimedTick(d) ==
    /\ clockSteps < MaxWindowTicks
    /\ clockSteps' = clockSteps + 1
    /\ sinceMinuteReset' = Advance(sinceMinuteReset, d, MinuteMs)
    /\ sinceDayReset' = Advance(sinceDayReset, d, DayMs)
    /\ recent' = Aged(recent, d, MinuteMs)
    /\ lastCheck' = "none"
    /\ UNCHANGED <<requestCount, okMinute, okDay, fetchVars, callVars, formatVars>>

\* ------------------------------------------------------------------------
\* checkRateLimit
\* ------------------------------------------------------------------------
\* checkRateLimit without requestCount.day++.
checkRateLimit_NoDayIncrement(rc, sinceMinute, sinceDay) ==
    LET minuteExpired == sinceMinute > MinuteMs
        dayExpired == sinceDay > DayMs
        minute1 == IF minuteExpired THEN 0 ELSE rc.minute
        day1 == IF dayExpired THEN 0 ELSE rc.day
        limited == minute1 >= perMinute \/ day1 >= perDay
    IN  [ requestCount |-> IF limited
                             THEN [minute |-> minute1, day |-> day1]
                             ELSE [minute |-> minute1 + 1, day |-> day1],
          sinceMinuteReset |-> IF minuteExpired THEN 0 ELSE sinceMinute,
          sinceDayReset |-> IF dayExpired THEN 0 ELSE sinceDay,
          minuteReset |-> minuteExpired,
          dayReset |-> dayExpired,
          threw |-> limited ]

\* checkRateLimit without requestCount.lastMinuteReset = now.
checkRateLimit_AnchorKept(rc, sinceMinute, sinceDay) ==
    LET minuteExpired == sinceMinute > MinuteMs
        dayExpired == sinceDay > DayMs
        minute1 == IF minuteExpired THEN 0 ELSE rc.minute
        day1 == IF dayExpired THEN 0 ELSE rc.day
        limited == minute1 >= perMinute \/ day1 >= perDay
    IN  [ requestCount |-> IF limited
                             THEN [minute |-> minute1, day |-> day1]
                             ELSE [minute |-> minute1 + 1, day |-> day1 + 1],
          sinceMinuteReset |-> sinceMinute,
          sinceDayReset |-> IF dayExpired THEN 0 ELSE sinceDay,
          minuteReset |-> minuteExpired,
          dayReset |-> dayExpired,
          threw |-> limited ]

\* checkRateLimit with the minute limit tested by > in place of >=.
checkRateLimit_MinuteOffByOne(rc, sinceMinute, sinceDay) ==
    LET minuteExpired == sinceMinute > MinuteMs
        dayExpired == sinceDay > DayMs
        minute1 == IF minuteExpired THEN 0 ELSE rc.minute
        day1 == IF dayExpired THEN 0 ELSE rc.day
        limited == minute1 > perMinute \/ day1 >= perDay
    IN  [ requestCount |-> IF limited
                             THEN [minute |-> minute1, day |-> day1]
                             ELSE [minute |-> minute1 + 1, day |-> day1 + 1],
          sinceMinuteReset |-> IF minuteExpired THEN 0 ELSE sinceMinute,
          sinceDayReset |-> IF dayExpired THEN 0 ELSE sinceDay,
          minuteReset |-> minuteExpired,
          dayReset |-> dayExpired,
          threw |-> limited ]

\* checkRateLimit with the day limit tested only when the minute window was
\* not reset by the call.
checkRateLimit_DayForgottenAfterReset(rc, sinceMinute, sinceDay) ==
    LET minuteExpired == sinceMinute > MinuteMs
        dayExpired == sinceDay > DayMs
        minute1 == IF minuteExpired THEN 0 ELSE rc.minute
        day1 == IF dayExpired THEN 0 ELSE rc.day
        limited == minute1 >= perMinute \/ (~minuteExpired /\ day1 >= perDay)
    IN  [ requestCount |-> IF limited
                             THEN [minute |-> minute1, day |-> day1]
                             ELSE [minute |-> minute1 + 1, day |-> day1 + 1],
          sinceMinuteReset |-> IF minuteExpired THEN 0 ELSE sinceMinute,
          sinceDayReset |-> IF dayExpired THEN 0 ELSE sinceDay,
          minuteReset |-> minuteExpired,
          dayReset |-> dayExpired,
          threw |-> limited ]

\* checkRateLimit without requestCount.minute++.
checkRateLimit_NoMinuteIncrement(rc, sinceMinute, sinceDay) ==
    LET minuteExpired == sinceMinute > MinuteMs
        dayExpired == sinceDay > DayMs
        minute1 == IF minuteExpired THEN 0 ELSE rc.minute
        day1 == IF dayExpired THEN 0 ELSE rc.day
        limited == minute1 >= perMinute \/ day1 >= perDay
    IN  [ requestCount |-> IF limited
                             THEN [minute |-> minute1, day |-> day1]
                             ELSE [minute |-> minute1, day |-> day1 + 1],
          sinceMinuteReset |-> IF minuteExpired THEN 0 ELSE sinceMinute,
          sinceDayReset |-> IF dayExpired THEN 0 ELSE sinceDay,
          minuteReset |-> minuteExpired,
          dayReset |-> dayExpired,
          threw |-> limited ]

\* The function as a whole (it is synchronous: no await inside), from the state
\* it reads to the state it leaves and whether it threw.
checkRateLimit(rc, sinceMinute, sinceDay) ==
    LET minuteExpired == sinceMinute > MinuteMs
        dayExpired == sinceDay > DayMs
        minute1 == IF minuteExpired THEN 0 ELSE rc.minute
        day1 == IF dayExpired THEN 0 ELSE rc.day
        sinceMinute1 == IF minuteExpired THEN 0 ELSE sinceMinute
        sinceDay1 == IF dayExpired THEN 0 ELSE sinceDay
        limited == minute1 >= perMinute \/ day1 >= perDay
    IN  [ requestCount |-> IF limited
                             THEN [minute |-> minute1, day |-> day1]
                             ELSE [minute |-> minute1 + 1, day |-> day1 + 1],
          sinceMinuteReset |-> sinceMinute1,
          sinceDayReset |-> sinceDay1,
          minuteReset |-> minuteExpired,
          dayReset |-> dayExpired,
          threw |-> limited ]

\* One call of checkRateLimit applied to the state, with the history it leaves.
DoCheck(r) ==
    /\ requestCount' = r.requestCount
    /\ sinceMinuteReset' = r.sinceMinuteReset
    /\ sinceDayReset' = r.sinceDayReset
    /\ okMinute' = (IF r.minuteReset THEN 0 ELSE okMinute) + (IF r.threw THEN 0 ELSE 1)
    /\ okDay' = (IF r.dayReset THEN 0 ELSE okDay) + (IF r.threw THEN 0 ELSE 1)
    /\ lastCheck' = IF r.threw THEN "limited" ELSE "ok"

\* ------------------------------------------------------------------------
\* Values
\* ------------------------------------------------------------------------
Handlers == 1 .. NumHandlers

\* An optional argument is the empty set when absent and {value} when given.
Absent == {}
TheValue(opt) == CHOOSE v \in opt : TRUE

DefaultIndices == <<"^GSPC", "^DJI", "^IXIC">>
validPeriods == <<"1d", "5d", "1mo", "3mo", "6mo", "1y", "2y", "5y", "10y", "ytd", "max">>
validIntervals ==
    <<"1m", "2m", "5m", "15m", "30m", "60m", "90m", "1h", "1d", "5d", "1wk", "1mo", "3mo">>

Range(seq) == {seq[i] : i \in 1 .. Len(seq)}

\* request.params of a tools/call request: the tool's name and its arguments.
Request(name, hasArgs, symbol, indices, period, interval) ==
    [name |-> name, hasArgs |-> hasArgs, symbol |-> symbol, indices |-> indices,
     period |-> period, interval |-> interval]

\* The requests the model sends.
Requests ==
    {Request("yahoo_stock_quote", TRUE, {"AAPL"}, Absent, Absent, Absent),
     Request("yahoo_stock_quote", TRUE, Absent, Absent, Absent, Absent),
     Request("yahoo_stock_quote", FALSE, Absent, Absent, Absent, Absent),
     Request("yahoo_market_data", TRUE, Absent, Absent, Absent, Absent),
     Request("yahoo_market_data", TRUE, Absent, {<<>>}, Absent, Absent),
     Request("yahoo_market_data", TRUE, Absent, {<<"^FTSE">>}, Absent, Absent),
     Request("yahoo_stock_history", TRUE, {"AAPL"}, Absent, Absent, Absent),
     Request("yahoo_stock_history", TRUE, {"AAPL"}, Absent, {"1week"}, Absent),
     Request("yahoo_stock_history", TRUE, {"AAPL"}, Absent, {"5d"}, {"2d"}),
     Request("yahoo_stock_history", TRUE, {"AAPL"}, Absent, {"1week"}, {"2d"}),
     Request("yahoo_stock_history", TRUE, Absent, Absent, {"1week"}, Absent),
     Request("yahoo_unknown_tool", TRUE, Absent, Absent, Absent, Absent)}

\* A bare call of fetchWithRetry, and no call at all.
BareFetch == Request("fetchWithRetry", TRUE, Absent, Absent, Absent, Absent)
NoCall == Request("", FALSE, Absent, Absent, Absent, Absent)

\* What one attempt's fetch(url, options) settles with: a rejection carrying a
\* transport error, or a response with a status and a body.  The body is "full"
\* (chart.result[0] with its meta block), "nometa" (chart.result[0] without
\* meta), "empty" (no chart.result[0]) or "garbage" (response.json() rejects).
TransportErrors == {"ECONNRESET", "ETIMEDOUT"}
Statuses == {200, 404, 429, 500}
Bodies == {"full", "nometa", "empty", "garbage"}
Rejected(e) == [kind |-> "throw", error |-> e, status |-> 0, body |-> "empty"]
Response(st, b) == [kind |-> "response", error |-> "", status |-> st, body |-> b]
Outcomes ==
    {Rejected(e) : e \in TransportErrors}
    \cup {Response(200, b) : b \in Bodies}
    \cup {Response(st, "empty") : st \in Statuses \ {200}}
\* The outcomes the server's fetches meet: as above, with one transport error.
ServerOutcomes == {o \in Outcomes : o.kind = "throw" => o.error = "ECONNRESET"}

\* Response.ok
IsOk(response) == response.status >= 200 /\ response.status <= 299

StatusStr(st) ==
    CASE st = 200 -> "200" [] st = 404 -> "404" [] st = 429 -> "429"
      [] st = 500 -> "500" [] OTHER -> "0"
StatusText(st) ==
    CASE st = 200 -> "OK" [] st = 404 -> "Not Found" [] st = 429 -> "Too Many Requests"
      [] st = 500 -> "Internal Server Error" [] OTHER -> ""

\* Texts are sequences of string pieces, in the order they are concatenated.
RateLimitMsg == <<"Rate limit exceeded. Please try again later.">>
MaxRetriesMsg == "Maximum retries exceeded"
JsonErrorMsg == "Unexpected token < in JSON at position 0"
MarketUnableText ==
    <<"Unable to retrieve market data. Yahoo Finance data may be temporarily unavailable.">>
QuoteUnableText(symbol) ==
    <<"Unable to retrieve data for symbol: ", symbol,
      ". The ticker symbol may be invalid or Yahoo Finance data may be temporarily unavailable.">>

\* The handler's two payloads: a returned text, and its catch block's error.
TextPayload(text) == [isError |-> FALSE, text |-> text]
ErrorPayload(msg) == [isError |-> TRUE, text |-> <<"Error: ">> \o msg]

\* What a piece of a pipeline ends with: a returned text, a thrown Error with
\* its message, or (Await) the start of a fetchWithRetry call.
Return(text) == [kind |-> "return", text |-> text]
Throw(msg) == [kind |-> "throw", text |-> msg]
Await == [kind |-> "fetch", text |-> <<>>]

\* ------------------------------------------------------------------------
\* fetchWithRetry
\* ------------------------------------------------------------------------
\* waitTime computed after retries++ instead of before.
waitTime_AfterIncrement(r) == (2 ^ (r + 1)) * 1000

\* Math.pow(2, retries) * 1000
waitTime(r) == (2 ^ r) * 1000

\* fetchAttempt with a 5xx response retried like a 429.
fetchAttempt_Retry5xx(r, le, o) ==
    IF o.kind = "response" /\ o.status # 429 /\ o.status < 500
      THEN [kind |-> "return", lastError |-> le, wait |-> 0]
      ELSE [kind |-> "wait",
            lastError |-> IF o.kind = "throw" THEN o.error ELSE le,
            wait |-> (2 ^ r) * 1000]

\* One pass of the while loop's body once fetch has settled with outcome o:
\* return the response, or record the error and wait.
fetchAttempt(r, le, o) ==
    IF o.kind = "response" /\ o.status # 429
      THEN [kind |-> "return", lastError |-> le, wait |-> 0]
      ELSE [kind |-> "wait",
            lastError |-> IF o.kind = "throw" THEN o.error ELSE le,
            wait |-> waitTime(r)]

\* fetchAfterWait with the loop's test retries <= maxRetries.
fetchAfterWait_OneMore(r, le) ==
    IF r + 1 <= maxRetries
      THEN [kind |-> "retry", retries |-> r + 1, error |-> ""]
      ELSE [kind |-> "throw", retries |-> r + 1,
            error |-> IF le # "" THEN le ELSE "Maximum retries exceeded"]

\* After the wait: retries++, then the loop's test, and the throw after the loop.
fetchAfterWait(r, le) ==
    IF r + 1 < maxRetries
      THEN [kind |-> "retry", retries |-> r + 1, error |-> ""]
      ELSE [kind |-> "throw", retries |-> r + 1,
            error |-> IF le # "" THEN le ELSE MaxRetriesMsg]

\* ------------------------------------------------------------------------
\* JavaScript values and their rendering
\* ------------------------------------------------------------------------
\* A value that is a number or missing: a rational n/d (d > 0), NaN, an
\* infinity (n is its sign), undefined or null.
Num(n) == [t |-> "number", n |-> n, d |-> 1]
Rat(n, d) == [t |-> "number", n |-> n, d |-> d]
NaN == [t |-> "NaN", n |-> 0, d |-> 1]
Infinity(sign) == [t |-> "Infinity", n |-> sign, d |-> 1]
Undefined == [t |-> "undefined", n |-> 0, d |-> 1]
Null == [t |-> "null", n |-> 0, d |-> 1]

Abs(i) == IF i < 0 THEN 0 - i ELSE i
Sign(i) == IF i < 0 THEN 0 - 1 ELSE 1

\* ToNumber: null is 0 and undefined is NaN.
ToNumber(v) == IF v.t = "null" THEN Num(0) ELSE IF v.t = "undefined" THEN NaN ELSE v

\* a - b, for operands that are not infinite.
Minus(a, b) ==
    LET x == ToNumber(a)
        y == ToNumber(b)
    IN  IF x.t = "number" /\ y.t = "number"
          THEN Rat(x.n * y.d - y.n * x.d, x.d * y.d)
          ELSE NaN

\* a / b, for operands that are not infinite.
Over(a, b) ==
    LET x == ToNumber(a)
        y == ToNumber(b)
    IN  IF x.t # "number" \/ y.t # "number" THEN NaN
        ELSE IF y.n = 0 THEN (IF x.n = 0 THEN NaN ELSE Infinity(Sign(x.n)))
        ELSE Rat(x.n * y.d * Sign(y.n), x.d * Abs(y.n))

\* a * 100
Times100(a) ==
    LET x == ToNumber(a)
    IN  IF x.t = "number" THEN Rat(x.n * 100, x.d) ELSE x

\* The test of a || b and of a ? b : c on a number or missing value.
Truthy(v) == v.t = "Infinity" \/ (v.t = "number" /\ v.n # 0)
OrElse(a, b) == IF Truthy(a) THEN a ELSE b

\* a || b on strings that may be missing ({} is undefined).
OrElseStr(a, b) == IF a # {} /\ a # {""} THEN a ELSE b
\* `${s}` of a string that may be missing.
Str(s) == IF s = {} THEN "undefined" ELSE TheValue(s)

Pad2(k) == IF k < 10 THEN "0" \o ToString(k) ELSE ToString(k)
Pad3(k) == IF k < 10 THEN "00" \o ToString(k) ELSE IF k < 100 THEN "0" \o ToString(k)
           ELSE ToString(k)

\* A natural number with its thousands grouped.
RECURSIVE Grouped(_)
Grouped(k) ==
    IF k < 1000 THEN ToString(k) ELSE Grouped(k \div 1000) \o "," \o Pad3(k % 1000)

\* The magnitude of the number v in units of 1/scale, rounded to the nearest.
Scaled(v, scale) ==
    (Abs(v.n) \div v.d) * scale + (2 * (Abs(v.n) % v.d) * scale + v.d) \div (2 * v.d)

\* Number.prototype.toFixed(2): two decimals, rounded to the nearest.
toFixed2(v) ==
    IF v.t = "NaN" THEN "NaN"
    ELSE IF v.t = "Infinity" THEN (IF v.n < 0 THEN "-Infinity" ELSE "Infinity")
    ELSE LET q == Scaled(v, 100)
         IN  (IF v.n < 0 /\ q > 0 THEN "-" ELSE "")
             \o ToString(q \div 100) \o "." \o Pad2(q % 100)

\* Number.prototype.toLocaleString() (en-US): grouped thousands, and up to
\* three decimals (none for a whole number).
toLocaleString(v) ==
    IF v.t = "NaN" THEN "NaN"
    ELSE IF v.t = "Infinity" THEN (IF v.n < 0 THEN "-Infinity" ELSE "Infinity")
    ELSE LET q == Scaled(v, 1000)
             frac == q % 1000
         IN  (IF v.n < 0 /\ q > 0 THEN "-" ELSE "")
             \o Grouped(q \div 1000)
             \o (IF frac = 0 THEN ""
                 ELSE IF frac % 100 = 0 THEN "." \o ToString(frac \div 100)
                 ELSE IF frac % 10 = 0 THEN "." \o Pad2(frac \div 10)
                 ELSE "." \o Pad3(frac))

Missing(v) == v.t \in {"undefined", "null"}

\* x?.toFixed(2) || 'N/A' and x?.toLocaleString() || 'N/A'
FixedOrNA(v) == IF Missing(v) THEN "N/A" ELSE toFixed2(v)
LocaleOrNA(v) == IF Missing(v) THEN "N/A" ELSE toLocaleString(v)

\* arr?.[i] with i counted from 0; a missing array is the empty one.
At(arr, i) == IF i + 1 \in DOMAIN arr THEN arr[i + 1] ELSE Undefined

\* new Date(seconds * 1000).toLocaleDateString(): the day the time falls on
\* (rendered here as the day's number since the epoch).
toLocaleDateString(seconds) == "day " \o ToString(seconds \div 86400)

\* ------------------------------------------------------------------------
\* Upstream data
\* ------------------------------------------------------------------------
\* result.meta of a chart result; {} for meta means the block is missing.
Meta(symbol, shortName, price, previousClose) ==
    [symbol |-> symbol, shortName |-> shortName, longName |-> {},
     regularMarketPrice |-> price, chartPreviousClose |-> previousClose,
     previousClose |-> previousClose, instrumentInfo |-> {},
     regularMarketDayLow |-> Undefined, regularMarketDayHigh |-> Undefined,
     fiftyTwoWeekLow |-> Undefined, fiftyTwoWeekHigh |-> Undefined,
     regularMarketVolume |-> Undefined, currency |-> {},
     firstTradeDate |-> Undefined, regularMarketTime |-> Undefined]
EmptyMeta == Meta({}, {}, Undefined, Undefined)

\* data.chart.result[0]: meta, timestamp and indicators.quote[0].
ChartResult(meta, timestamp, quote) == [meta |-> meta, timestamp |-> timestamp, quote |-> quote]
Quote0(open, high, low, close, volume) ==
    [open |-> open, high |-> high, low |-> low, close |-> close, volume |-> volume]
MetaOf(result) == IF result.meta = {} THEN EmptyMeta ELSE TheValue(result.meta)

\* ------------------------------------------------------------------------
\* The formatters
\* ------------------------------------------------------------------------
\* formatStockQuote's formatNumber and formatPercent.
formatNumber(num) == IF Missing(num) THEN "N/A" ELSE toLocaleString(num)
formatPercent(num) == IF Missing(num) THEN "N/A" ELSE toFixed2(Times100(num)) \o "%"

\* The quoteData record fetchStockQuote builds from a result with a meta block.
quoteData(result, symbol) ==
    LET meta == TheValue(result.meta)
        change == Minus(meta.regularMarketPrice, meta.chartPreviousClose)
    IN  [symbol |-> meta.symbol,
         shortName |-> OrElseStr(OrElseStr(meta.shortName, meta.longName), {symbol}),
         longName |-> {},
         regularMarketPrice |-> meta.regularMarketPrice,
         regularMarketChange |-> change,
         regularMarketChangePercent |-> Over(change, meta.chartPreviousClose),
         regularMarketPreviousClose |-> meta.chartPreviousClose,
         regularMarketOpen |-> At(result.quote.open, 0),
         regularMarketDayLow |-> OrElse(meta.regularMarketDayLow, At(result.quote.low, 0)),
         regularMarketDayHigh |-> OrElse(meta.regularMarketDayHigh, At(result.quote.high, 0)),
         fiftyTwoWeekLow |-> meta.fiftyTwoWeekLow,
         fiftyTwoWeekHigh |-> meta.fiftyTwoWeekHigh,
         regularMarketVolume |-> OrElse(meta.regularMarketVolume, At(result.quote.volume, 0)),
         averageDailyVolume3Month |-> Null,
         marketCap |-> Null,
         trailingPE |-> Null,
         epsTrailingTwelveMonths |-> Null,
         dividendYield |-> Null]

formatStockQuote(quote) ==
    <<"Symbol: ", Str(quote.symbol),
      "\nName: ", Str(OrElseStr(OrElseStr(quote.shortName, quote.longName), {"N/A"})),
      "\nPrice: $", formatNumber(quote.regularMarketPrice),
      "\nChange: $", formatNumber(quote.regularMarketChange),
      " (", formatPercent(quote.regularMarketChangePercent), ")",
      "\nPrevious Close: $", formatNumber(quote.regularMarketPreviousClose),
      "\nOpen: $", formatNumber(quote.regularMarketOpen),
      "\nDay Range: $", formatNumber(quote.regularMarketDayLow),
      " - $", formatNumber(quote.regularMarketDayHigh),
      "\n52 Week Range: $", formatNumber(quote.fiftyTwoWeekLow),
      " - $", formatNumber(quote.fiftyTwoWeekHigh),
      "\nVolume: ", formatNumber(quote.regularMarketVolume),
      "\nAvg. Volume: ", formatNumber(quote.averageDailyVolume3Month),
      "\nMarket Cap: $", formatNumber(quote.marketCap),
      "\nP/E Ratio: ", formatNumber(quote.trailingPE),
      "\nEPS: $", formatNumber(quote.epsTrailingTwelveMonths),
      "\nDividend Yield: ", formatPercent(quote.dividendYield)>>

BasicQuoteNote ==
    "\n\nNote: Full quote data is unavailable. Showing limited information from chart data."

formatBasicQuote(chartData, symbol) ==
    LET meta == MetaOf(chartData)
        currentPrice == meta.regularMarketPrice
        previousClose == meta.previousClose
        change == Minus(meta.regularMarketPrice, meta.previousClose)
        changePercent == Times100(Over(change, meta.previousClose))
    IN  <<"Symbol: ", symbol,
          "\nName: ", Str(OrElseStr(meta.instrumentInfo, {symbol})),
          "\nPrice: $", LocaleOrNA(currentPrice),
          "\nChange: $", FixedOrNA(change),
          " (", FixedOrNA(changePercent), "%)",
          "\nPrevious Close: $", LocaleOrNA(previousClose),
          BasicQuoteNote>>

\* fetchStockQuote's report for a result: the full one when the result has a
\* meta block, the basic one otherwise.
quoteReport(result, symbol) ==
    IF result.meta # {} THEN formatStockQuote(quoteData(result, symbol))
    ELSE formatBasicQuote(result, symbol)

maxPoints == 10

Max(a, b) == IF a >= b THEN a ELSE b

\* const step = Math.max(1, Math.floor(timestamps.length / maxPoints))
historyStep(n) == Max(1, n \div maxPoints)

TableHeader == "Date       | Open     | High     | Low      | Close    | Volume\n"
TableRuler == "-----------|----------|----------|----------|----------|------------\n"
RowPieces == 12

\* The table row of point i (its cells are padded to a fixed width, which is
\* not rendered here).
historyRow(historyData, i) ==
    <<toLocaleDateString(historyData.timestamp[i + 1]),
      " | $", FixedOrNA(At(historyData.quote.open, i)),
      " | $", FixedOrNA(At(historyData.quote.high, i)),
      " | $", FixedOrNA(At(historyData.quote.low, i)),
      " | $", FixedOrNA(At(historyData.quote.close, i)),
      " | ", LocaleOrNA(At(historyData.quote.volume, i)), "\n">>

\* for (let i = 0; i < timestamps.length; i += step), from position i on.
RECURSIVE historyRows(_, _, _)
historyRows(historyData, i, step) ==
    IF i < Len(historyData.timestamp)
      THEN historyRow(historyData, i) \o historyRows(historyData, i + step, step)
      ELSE <<>>

\* historySummary computed from the last row of the table.
historySummary_LastRendered(historyData) ==
    LET n == Len(historyData.timestamp)
        step == Max(1, n \div maxPoints)
        firstClose == At(historyData.quote.close, 0)
        lastClose == At(historyData.quote.close, ((n - 1) \div step) * step)
        change == Minus(lastClose, firstClose)
    IN  IF n > 0 /\ firstClose.t # "undefined" /\ lastClose.t # "undefined"
          THEN <<"\nPrice Change: $", toFixed2(change),
                 " (", toFixed2(Times100(Over(change, firstClose))), "%)">>
          ELSE <<>>

\* The summary line.
historySummary(historyData) ==
    LET n == Len(historyData.timestamp)
        firstClose == At(historyData.quote.close, 0)
        lastClose == At(historyData.quote.close, n - 1)
        change == Minus(lastClose, firstClose)
        percentChange == Times100(Over(change, firstClose))
    IN  IF n > 0 /\ firstClose.t # "undefined" /\ lastClose.t # "undefined"
          THEN <<"\nPrice Change: $", toFixed2(change),
                 " (", toFixed2(percentChange), "%)">>
          ELSE <<>>

formatStockHistory(historyData, symbol, period, interval) ==
    LET meta == MetaOf(historyData)
        currency == OrElseStr(meta.currency, {"USD"})
    IN  <<"Historical data for ", symbol, " (", period, ", ", interval, " intervals)\n",
          "Currency: ", Str(currency), "\n">>
        \o (IF Truthy(meta.firstTradeDate) /\ Truthy(meta.regularMarketTime)
              THEN <<"Trading Period: ", toLocaleDateString(meta.firstTradeDate.n), " to ",
                     toLocaleDateString(meta.regularMarketTime.n), "\n\n">>
              ELSE <<"\n">>)
        \o <<TableHeader, TableRuler>>
        \o historyRows(historyData, 0, historyStep(Len(historyData.timestamp)))
        \o historySummary(historyData)

\* The chart results the server's fetches bring for the bodies "full" and
\* "nometa".
SampleQuote0 ==
    Quote0(<<Num(149), Num(151)>>, <<Num(152), Num(153)>>, <<Num(147), Num(150)>>,
           <<Num(150), Num(152)>>, <<Num(1200300), Num(900000)>>)
SampleTimestamps == <<1761955200, 1762041600>>
ResultOf(body, symbol) ==
    ChartResult(IF body = "full" THEN {Meta({symbol}, {symbol}, Num(152), Num(150))} ELSE {},
                SampleTimestamps, SampleQuote0)

\* ------------------------------------------------------------------------
\* The pipelines
\* ------------------------------------------------------------------------
\* const { indices = ["^GSPC", "^DJI", "^IXIC"] } = args: the default applies
\* to an undefined property only.
ResolveIndices(req) ==
    IF req.indices = Absent THEN DefaultIndices ELSE TheValue(req.indices)
ResolvePeriod(req) == IF req.period = Absent THEN "1mo" ELSE TheValue(req.period)
ResolveInterval(req) == IF req.interval = Absent THEN "1d" ELSE TheValue(req.interval)
Symbol(req) == TheValue(req.symbol)

\* The handler before it calls a pipeline: the arguments' checks and the switch.
Dispatch(req) ==
    IF ~req.hasArgs THEN Throw(<<"No arguments provided">>)
    ELSE IF req.name = "yahoo_stock_quote" THEN
        IF req.symbol = Absent THEN Throw(<<"Invalid arguments for yahoo_stock_quote">>)
        ELSE Await
    ELSE IF req.name = "yahoo_market_data" THEN Await
    ELSE IF req.name = "yahoo_stock_history" THEN
        IF req.symbol = Absent THEN Throw(<<"Invalid arguments for yahoo_stock_history">>)
        ELSE Await
    ELSE [kind |-> "unknown", text |-> <<"Unknown tool: ", req.name>>]

\* PipelineBody without fetchStockHistory's test of interval.
PipelineBody_IntervalUnchecked(req) ==
    IF req.name = "yahoo_stock_quote" THEN Await
    ELSE IF req.name = "yahoo_market_data" THEN
        IF Len(ResolveIndices(req)) = 0 THEN Return(MarketUnableText) ELSE Await
    ELSE
        IF ResolvePeriod(req) \notin Range(validPeriods) THEN
            Throw(<<"Failed to fetch stock history: ", "Invalid period: ", ResolvePeriod(req),
                    ". Valid periods are: ">> \o validPeriods)
        ELSE Await

\* A pipeline's try block up to its first await.
PipelineBody(req) ==
    IF req.name = "yahoo_stock_quote" THEN Await
    ELSE IF req.name = "yahoo_market_data" THEN
        IF Len(ResolveIndices(req)) = 0 THEN Return(MarketUnableText) ELSE Await
    ELSE
        IF ResolvePeriod(req) \notin Range(validPeriods) THEN
            Throw(<<"Failed to fetch stock history: ", "Invalid period: ", ResolvePeriod(req),
                    ". Valid periods are: ">> \o validPeriods)
        ELSE IF ResolveInterval(req) \notin Range(validIntervals) THEN
            Throw(<<"Failed to fetch stock history: ", "Invalid interval: ",
                    ResolveInterval(req), ". Valid intervals are: ">> \o validIntervals)
        ELSE Await

\* PipelineEntry with the rate limiter's error caught and dropped.
PipelineEntry_ErrorDropped(req, threw) == PipelineBody(req)

\* A pipeline from its call to its first await, given whether its first
\* statement, checkRateLimit(), threw (the call stands before the try block).
PipelineEntry(req, threw) == IF threw THEN Throw(RateLimitMsg) ELSE PipelineBody(req)

\* What fetchWithRetry ended with: a response, or a thrown error.
FetchReturned(o) == [kind |-> "response", status |-> o.status, body |-> o.body, error |-> ""]
FetchThrew(e) == [kind |-> "throw", status |-> 0, body |-> "empty", error |-> e]
NotFetched == [kind |-> "none", status |-> 0, body |-> "empty", error |-> ""]

\* fetchStockQuote after its await of fetchWithRetry.
quoteAfterFetch(req, f) ==
    IF f.kind = "throw" THEN Throw(<<"Failed to fetch stock quote: ", f.error>>)
    ELSE IF IsOk(f) /\ f.body = "garbage"
        THEN Throw(<<"Failed to fetch stock quote: ", JsonErrorMsg>>)
    ELSE IF IsOk(f) /\ f.body \in {"full", "nometa"}
        THEN Return(quoteReport(ResultOf(f.body, Symbol(req)), Symbol(req)))
    ELSE Return(QuoteUnableText(Symbol(req)))

\* historyAfterFetch without the test of response.ok: a refused request reads
\* as one without data.
historyAfterFetch_NoOkTest(req, f) ==
    IF f.kind = "throw" THEN Throw(<<"Failed to fetch stock history: ", f.error>>)
    ELSE IF f.body = "garbage"
        THEN Throw(<<"Failed to fetch stock history: ", "Unexpected token < in JSON at position 0">>)
    ELSE IF f.body = "empty"
        THEN Return(<<"No historical data found for symbol: ", TheValue(req.symbol)>>)
    ELSE Return(<<"Historical data for ", TheValue(req.symbol)>>)

\* fetchStockHistory after its await of fetchWithRetry.
historyAfterFetch(req, f) ==
    IF f.kind = "throw" THEN Throw(<<"Failed to fetch stock history: ", f.error>>)
    ELSE IF ~IsOk(f)
        THEN Throw(<<"Failed to fetch stock history: ", "API error: ",
                     StatusStr(f.status), " ", StatusText(f.status)>>)
    ELSE IF f.body = "garbage"
        THEN Throw(<<"Failed to fetch stock history: ", JsonErrorMsg>>)
    ELSE IF f.body = "empty"
        THEN Return(<<"No historical data found for symbol: ", Symbol(req)>>)
    ELSE Return(formatStockHistory(ResultOf(f.body, Symbol(req)), Symbol(req),
                                   ResolvePeriod(req), ResolveInterval(req)))

\* marketAfterFetch without the inner try: an index's failure leaves the loop.
marketAfterFetch_NoInnerTry(results, indexSymbol, f) ==
    IF f.kind = "response" /\ IsOk(f) /\ f.body = "full"
      THEN [kind |-> "continue", indexResults |-> Append(results, indexSymbol), text |-> <<>>]
    ELSE IF f.kind = "response" /\ (~IsOk(f) \/ f.body = "empty")
      THEN [kind |-> "continue", indexResults |-> results, text |-> <<>>]
    ELSE [kind |-> "throw", indexResults |-> results,
          text |-> <<IF f.kind = "throw" THEN f.error ELSE "TypeError">>]

\* One pass of fetchMarketData's loop body after its await: the record pushed
\* for indexSymbol, or nothing (a failure is caught and logged by the inner
\* try; reading result.meta.shortName of a result without meta throws there).
marketAfterFetch(results, indexSymbol, f) ==
    IF f.kind = "response" /\ IsOk(f) /\ f.body = "full"
      THEN [kind |-> "continue", indexResults |-> Append(results, indexSymbol), text |-> <<>>]
      ELSE [kind |-> "continue", indexResults |-> results, text |-> <<>>]

\* formatMarketData: one block per record, joined by blank lines.
RECURSIVE formatMarketData(_)
formatMarketData(results) ==
    IF Len(results) = 0 THEN <<>>
    ELSE IF Len(results) = 1 THEN <<Head(results), "Price: ", "Change: ">>
    ELSE <<Head(results), "Price: ", "Change: ", "\n\n">> \o formatMarketData(Tail(results))

\* fetchMarketData after its loop.
marketFinish(results) ==
    IF Len(results) > 0 THEN Return(formatMarketData(results)) ELSE Return(MarketUnableText)

\* ------------------------------------------------------------------------
\* The handlers' steps
\* ------------------------------------------------------------------------
\* A handler runs from one await to the next without interruption (one thread,
\* run to completion); its steps are the stretches between the awaits that can
\* take time: fetch(url, options) and the backoff timer.  The await of
\* response.json() is taken together with the fetch it follows: nothing shared
\* is read or written after it.

Set(f, p, v) == [f EXCEPT ![p] = v]

NoResp ==
    [req |-> NoCall, isError |-> FALSE, text |-> <<>>, sent |-> FALSE,
     refusedOnly |-> FALSE, status |-> 0, asked |-> <<>>, good |-> <<>>, results |-> <<>>,
     limited |-> FALSE]

\* fetchWithRetry returned a response with a non-2xx status (never 429, which
\* it does not return).
Refused(f) == f.kind = "response" /\ ~IsOk(f)

\* What the handler returns for the end of a pipeline.
Payload(end) ==
    IF end.kind = "return" THEN TextPayload(end.text)
    ELSE IF end.kind = "throw" THEN ErrorPayload(end.text)
    ELSE [isError |-> TRUE, text |-> end.text]

\* The handler of p returns: the payload goes to the client.  (threw: the
\* call's checkRateLimit threw.)
FinishCall(p, req, end, f, refused, askedNow, goodNow, results, threw) ==
    /\ pc' = Set(pc, p, "idle")
    /\ resp' = Set(resp, p, [req |-> req, isError |-> Payload(end).isError,
                             text |-> Payload(end).text, sent |-> f.kind # "none",
                             refusedOnly |-> refused, status |-> f.status,
                             asked |-> askedNow, good |-> goodNow, results |-> results,
                             limited |-> threw])
    /\ call' = Set(call, p, NoCall)
    /\ sent' = Set(sent, p, FALSE)
    /\ asked' = Set(asked, p, <<>>)
    /\ good' = Set(good, p, <<>>)
    /\ refusedOnly' = Set(refusedOnly, p, FALSE)
    /\ loopIndex' = Set(loopIndex, p, 0)
    /\ indexResults' = Set(indexResults, p, <<>>)
    /\ retries' = Set(retries, p, 0)
    /\ lastError' = Set(lastError, p, "")
    /\ attempts' = Set(attempts, p, <<>>)
    /\ waits' = Set(waits, p, <<>>)

\* fetchWithRetry is called: its locals are set and its first fetch is issued.
BeginFetch(p) ==
    /\ pc' = Set(pc, p, "fetch")
    /\ retries' = Set(retries, p, 0)
    /\ lastError' = Set(lastError, p, "")
    /\ attempts' = Set(attempts, p, <<>>)
    /\ waits' = Set(waits, p, <<>>)
    /\ sent' = Set(sent, p, TRUE)

\* A tools/call request arrives and its handler runs to its first await.
CallTool(p, req) ==
    /\ pc[p] = "idle"
    /\ started < MaxCalls
    /\ started' = started + 1
    /\ UNCHANGED <<fetched, formatVars, windowVars>>
    /\ LET d == Dispatch(req) IN
       IF d.kind # "fetch"
         THEN /\ UNCHANGED rateVars
              /\ lastCheck' = "none"
              /\ FinishCall(p, req, d, NotFetched, FALSE, <<>>, <<>>, <<>>, FALSE)
         ELSE LET r == checkRateLimit(requestCount, sinceMinuteReset, sinceDayReset)
                  e == PipelineEntry(req, r.threw)
              IN  /\ DoCheck(r)
                  /\ IF e.kind = "fetch"
                       THEN /\ BeginFetch(p)
                            /\ call' = Set(call, p, req)
                            /\ resp' = Set(resp, p, NoResp)
                            /\ refusedOnly' = Set(refusedOnly, p, TRUE)
                            /\ loopIndex' = Set(loopIndex, p,
                                   IF req.name = "yahoo_market_data" THEN 1 ELSE 0)
                            /\ indexResults' = Set(indexResults, p, <<>>)
                            /\ asked' = Set(asked, p,
                                   IF req.name = "yahoo_market_data"
                                     THEN <<ResolveIndices(req)[1]>> ELSE <<>>)
                            /\ good' = Set(good, p, <<>>)
                       ELSE FinishCall(p, req, e, NotFetched, FALSE, <<>>, <<>>, <<>>, r.threw)

\* fetchWithRetry of p has ended with f: the pipeline runs on to its next await
\* or to its end.
AfterFetch(p, f) ==
    LET req == call[p]
        refused == refusedOnly[p] /\ Refused(f)
    IN  IF req.name = "fetchWithRetry" THEN
            /\ fetched' = Set(fetched, p, f)
            /\ pc' = Set(pc, p, "idle")
            /\ UNCHANGED <<call, loopIndex, indexResults, sent, asked, good, refusedOnly,
                           resp>>
        ELSE IF req.name = "yahoo_stock_quote" THEN
            /\ FinishCall(p, req, quoteAfterFetch(req, f), f, refused, <<>>, <<>>, <<>>, FALSE)
            /\ UNCHANGED fetched
        ELSE IF req.name = "yahoo_stock_history" THEN
            /\ FinishCall(p, req, historyAfterFetch(req, f), f, refused, <<>>, <<>>, <<>>, FALSE)
            /\ UNCHANGED fetched
        ELSE
            LET indices == ResolveIndices(req)
                indexSymbol == indices[loopIndex[p]]
                m == marketAfterFetch(indexResults[p], indexSymbol, f)
                goodNow == IF f.kind = "response" /\ IsOk(f) /\ f.body = "full"
                             THEN Append(good[p], indexSymbol) ELSE good[p]
            IN  /\ UNCHANGED fetched
                /\ IF m.kind = "throw" THEN
                       FinishCall(p, req,
                                  Throw(<<"Failed to fetch market data: ">> \o m.text),
                                  f, refused, asked[p], goodNow, m.indexResults, FALSE)
                   ELSE IF loopIndex[p] < Len(indices) THEN
                       /\ BeginFetch(p)
                       /\ loopIndex' = Set(loopIndex, p, loopIndex[p] + 1)
                       /\ indexResults' = Set(indexResults, p, m.indexResults)
                       /\ refusedOnly' = Set(refusedOnly, p, refused)
                       /\ asked' = Set(asked, p, Append(asked[p], indices[loopIndex[p] + 1]))
                       /\ good' = Set(good, p, goodNow)
                       /\ UNCHANGED <<call, resp>>
                   ELSE
                       FinishCall(p, req, marketFinish(m.indexResults), f, refused,
                                  asked[p], goodNow, m.indexResults, FALSE)

\* The fetch of p's running attempt settles with outcome o.
FetchSettles(p, o) ==
    /\ pc[p] = "fetch"
    /\ lastCheck' = "none"
    /\ UNCHANGED <<rateVars, started, formatVars, windowVars>>
    /\ LET a == fetchAttempt(retries[p], lastError[p], o) IN
       IF a.kind = "return"
         THEN /\ AfterFetch(p, FetchReturned(o))
              /\ IF call[p].name = "fetchWithRetry"
                   THEN /\ attempts' = Set(attempts, p, Append(attempts[p], o))
                        /\ UNCHANGED <<retries, lastError, waits>>
                   ELSE TRUE
         ELSE /\ pc' = Set(pc, p, "backoff")
              /\ lastError' = Set(lastError, p, a.lastError)
              /\ IF call[p].name = "fetchWithRetry"
                   THEN /\ attempts' = Set(attempts, p, Append(attempts[p], o))
                        /\ waits' = Set(waits, p, Append(waits[p], a.wait))
                   ELSE UNCHANGED <<attempts, waits>>
              /\ UNCHANGED <<retries, fetched, call, loopIndex, indexResults, sent,
                             asked, good, refusedOnly, resp>>

\* The backoff timer of p fires.
TimerFires(p) ==
    /\ pc[p] = "backoff"
    /\ lastCheck' = "none"
    /\ UNCHANGED <<rateVars, started, formatVars, windowVars>>
    /\ LET w == fetchAfterWait(retries[p], lastError[p]) IN
       IF w.kind = "retry"
         THEN /\ pc' = Set(pc, p, "fetch")
              /\ retries' = Set(retries, p, w.retries)
              /\ UNCHANGED <<lastError, attempts, waits, fetched, callVars>>
         ELSE /\ AfterFetch(p, FetchThrew(w.error))
              /\ IF call[p].name = "fetchWithRetry"
                   THEN /\ retries' = Set(retries, p, w.retries)
                        /\ UNCHANGED <<lastError, attempts, waits>>
                   ELSE TRUE

\* A bare call of fetchWithRetry(url, options), with the default maxRetries.
CallFetchWithRetry(p) ==
    /\ pc[p] = "idle"
    /\ fetched[p] = NotFetched
    /\ BeginFetch(p)
    /\ call' = Set(call, p, BareFetch)
    /\ lastCheck' = "none"
    /\ UNCHANGED <<rateVars, fetched, loopIndex, indexResults, asked, good, refusedOnly,
                   resp, started, formatVars, windowVars>>

\* A bare call of checkRateLimit (the rate limiter on its own).
Check ==
    /\ DoCheck(checkRateLimit(requestCount, sinceMinuteReset, sinceDayReset))
    /\ UNCHANGED <<fetchVars, callVars, formatVars, windowVars>>

\* A bare call of checkRateLimit, its time kept when it passes.
TimedCheck ==
    LET r == checkRateLimit(requestCount, sinceMinuteReset, sinceDayReset)
    IN  /\ DoCheck(r)
        /\ recent' = IF r.threw THEN recent ELSE Append(recent, 0)
        /\ UNCHANGED <<fetchVars, callVars, formatVars, clockSteps>>

\* formatStockHistory called on its own.
FormatHistory ==
    /\ formatIn.fn = "formatStockHistory"
    /\ formatOut = <<>>
    /\ formatOut' = formatStockHistory(formatIn.result, formatIn.symbol, "1mo", "1d")
    /\ UNCHANGED <<rateVars, lastCheck, fetchVars, callVars, formatIn, windowVars>>

\* The report fetchStockQuote makes of a chart result.
FormatQuote ==
    /\ formatIn.fn = "quoteReport"
    /\ formatOut = <<>>
    /\ formatOut' = quoteReport(formatIn.result, formatIn.symbol)
    /\ UNCHANGED <<rateVars, lastCheck, fetchVars, callVars, formatIn, windowVars>>

\* ------------------------------------------------------------------------
\* Specifications
\* ------------------------------------------------------------------------
HandlersIdle ==
    /\ pc = [p \in Handlers |-> "idle"]
    /\ call = [p \in Handlers |-> NoCall]
    /\ retries = [p \in Handlers |-> 0]
    /\ lastError = [p \in Handlers |-> ""]
    /\ loopIndex = [p \in Handlers |-> 0]
    /\ indexResults = [p \in Handlers |-> <<>>]
    /\ attempts = [p \in Handlers |-> <<>>]
    /\ waits = [p \in Handlers |-> <<>>]
    /\ sent = [p \in Handlers |-> FALSE]
    /\ asked = [p \in Handlers |-> <<>>]
    /\ good = [p \in Handlers |-> <<>>]
    /\ refusedOnly = [p \in Handlers |-> FALSE]
    /\ fetched = [p \in Handlers |-> NotFetched]
    /\ resp = [p \in Handlers |-> NoResp]
    /\ started = 0

\* No formatter is called on its own.
NoFormat == [fn |-> "", symbol |-> "", result |-> ChartResult({}, <<>>, Quote0(<<>>, <<>>, <<>>, <<>>, <<>>))]
FormatIdle ==
    /\ formatIn = NoFormat
    /\ formatOut = <<>>
    /\ recent = <<>>
    /\ clockSteps = 0

\* The module's state when it has loaded: requestCount as initialised.
RateInit ==
    /\ requestCount = [minute |-> 0, day |-> 0]
    /\ sinceMinuteReset = 0
    /\ sinceDayReset = 0
    /\ okMinute = 0
    /\ okDay = 0
    /\ lastCheck = "none"

\* The rate limiter alone: checkRateLimit called at any times.
RateNext ==
    \/ \E d \in ClockSteps : Tick(d)
    \/ Check

Init == RateInit /\ HandlersIdle /\ FormatIdle

SpecRate == Init /\ [][RateNext]_vars

\* The rate limiter alone, with the times of the checks that passed.
WindowNext ==
    \/ \E d \in WindowClockSteps : TimedTick(d)
    \/ TimedCheck

SpecWindow == Init /\ [][WindowNext]_vars

\* fetchWithRetry alone: one call, against every transport.
FetchNext ==
    \/ CallFetchWithRetry(1)
    \/ \E o \in Outcomes : FetchSettles(1, o)
    \/ TimerFires(1)

SpecFetch == Init /\ [][FetchNext]_vars

\* The server: tool calls arrive at any time and their handlers overlap.
\* The clock steps explored here bring a window just past its edge.
ServerClockSteps ==
    (IF sinceMinuteReset <= MinuteMs THEN {MinuteMs + 1} ELSE {})
    \cup (IF sinceDayReset <= DayMs THEN {DayMs + 1 - sinceDayReset} ELSE {})

\* States of requestCount the server is in after it has served calls one after
\* another: none; 19 within the first minute; 499 in 25 minute windows, 19 of
\* them in the present one.  Each is a state SpecRate reaches from RateInit.
PriorUse ==
    {[minute |-> 0, day |-> 0, sinceDay |-> 0],
     [minute |-> 19, day |-> 19, sinceDay |-> 0],
     [minute |-> 19, day |-> 499, sinceDay |-> 48 * MinuteMs]}

ServerInit ==
    /\ \E u \in PriorUse :
        /\ requestCount = [minute |-> u.minute, day |-> u.day]
        /\ okMinute = u.minute
        /\ okDay = u.day
        /\ sinceDayReset = u.sinceDay
    /\ sinceMinuteReset = 0
    /\ lastCheck = "none"
    /\ HandlersIdle
    /\ FormatIdle

Next ==
    \/ \E d \in ServerClockSteps : Tick(d)
    \/ \E p \in Handlers, req \in Requests : CallTool(p, req)
    \/ \E p \in Handlers, o \in ServerOutcomes : FetchSettles(p, o)
    \/ \E p \in Handlers : TimerFires(p)

Spec == ServerInit /\ [][Next]_vars

\* The formatters alone, on every input below.
\* A history series of n daily points: the close of the first point, of the
\* last point, 15 for the points between; the other columns given or missing.
HistorySeries(n, first, last, columns) ==
    LET close == [i \in 1 .. n |-> IF i = 1 THEN first ELSE IF i = n THEN last ELSE Num(15)]
    IN  ChartResult({},
                    [i \in 1 .. n |-> (FirstDay + i - 1) * 86400],
                    IF columns
                      THEN Quote0(close, close, close, close, [i \in 1 .. n |-> Num(1000 * i)])
                      ELSE Quote0(<<>>, <<>>, <<>>, close, <<>>))

HistoryInputs ==
    {[fn |-> "formatStockHistory", symbol |-> "AAPL",
      result |-> HistorySeries(n, first, last, columns)] :
        n \in 0 .. MaxSeriesLen,
        first \in {Undefined, Num(10), Num(20)},
        last \in {Undefined, Num(10), Num(30)},
        columns \in BOOLEAN}

QuoteInputs ==
    {[fn |-> "quoteReport", symbol |-> "AAPL",
      result |-> ChartResult(meta, IF series THEN SampleTimestamps ELSE <<>>,
                             IF series THEN SampleQuote0
                                       ELSE Quote0(<<>>, <<>>, <<>>, <<>>, <<>>))] :
        meta \in {{}} \cup {{Meta(symbol, shortName, price, previousClose)} :
                                symbol \in {{}, {"AAPL"}},
                                shortName \in {{}, {"Apple Inc."}},
                                price \in {Undefined, Null, Num(152), Num(1234567)},
                                previousClose \in {Undefined, Null, Num(150), Num(0)}},
        series \in BOOLEAN}

FormatInit ==
    /\ RateInit
    /\ HandlersIdle
    /\ formatIn \in HistoryInputs \cup QuoteInputs
    /\ formatOut = <<>>
    /\ recent = <<>>
    /\ clockSteps = 0

FormatNext ==
    \/ FormatHistory
    \/ FormatQuote

SpecFormat == FormatInit /\ [][FormatNext]_vars

\* fetchWithRetry alone, where every fetch settles and every timer fires.
SpecFetchLive ==
    /\ Init
    /\ [][FetchNext]_vars
    /\ WF_vars(CallFetchWithRetry(1))
    /\ WF_vars(\E o \in Outcomes : FetchSettles(1, o))
    /\ WF_vars(TimerFires(1))

\* ------------------------------------------------------------------------
\* Properties
\* ------------------------------------------------------------------------
Last(seq) == seq[Len(seq)]
PipelineTools == {"yahoo_stock_quote", "yahoo_market_data", "yahoo_stock_history"}
RateLimitPayload == ErrorPayload(RateLimitMsg)

\* The day limit leaves room for the call about to be made.
DayRoom == sinceDayReset > DayMs \/ requestCount.day < perDay

\* C1 as stated: of the calls made within 60 seconds of a minute window's
\* start, the first 20 succeed and the 21st fails; a call made more than 60
\* seconds after the window's start succeeds and leaves the minute counter at 1.
C1_MinuteWindowUnconditional ==
    [][lastCheck' # "none" =>
          IF sinceMinuteReset > MinuteMs
            THEN lastCheck' = "ok" /\ requestCount'.minute = 1
            ELSE IF okMinute < perMinute THEN lastCheck' = "ok"
                                         ELSE lastCheck' = "limited"]_vars

\* C1 as amended: the same, for the calls that the day limit leaves room for
\* (fewer than 500 successful calls in the present day window); at 20 successes
\* in the minute window a call within the window fails whatever the day counter.
C1_MinuteWindow ==
    [][lastCheck' # "none" =>
          IF sinceMinuteReset > MinuteMs
            THEN DayRoom => (lastCheck' = "ok" /\ requestCount'.minute = 1 /\ okMinute' = 1)
            ELSE IF okMinute < perMinute THEN DayRoom => lastCheck' = "ok"
                                         ELSE lastCheck' = "limited"]_vars

\* A second minute window has been filled after the first one: 20 calls
\* succeeded in each and the next call in the window has just failed.
C1_Witness ==
    /\ lastCheck = "limited"
    /\ okMinute = perMinute
    /\ okDay = 2 * perMinute
    /\ sinceMinuteReset <= MinuteMs

\* C2: once 500 calls have succeeded in a day window, every call made up to
\* 86400 seconds after the window's anchor fails, whatever the minute window
\* does; and a failing call increments neither counter (it leaves each as it
\* was or, its window having expired, at 0).
C2_DayLimit ==
    [][lastCheck' # "none" =>
          /\ (okDay = perDay /\ sinceDayReset <= DayMs) => lastCheck' = "limited"
          /\ lastCheck' = "limited" =>
                /\ requestCount'.minute \in {requestCount.minute, 0}
                /\ requestCount'.day \in {requestCount.day, 0}
                /\ okMinute' \in {okMinute, 0}
                /\ okDay' \in {okDay, 0}]_vars

\* The day limit has been reached and a call made after a minute-window reset
\* (the minute counter is back at 0) has just failed.
C2_Witness ==
    /\ lastCheck = "limited"
    /\ okDay = perDay
    /\ requestCount.minute = 0
    /\ sinceDayReset <= DayMs

\* C3: with handlers overlapping, the checks that passed since the latest
\* minute-window reset never exceed 20, those since the latest day-window reset
\* never exceed 500, and each counter equals the number of checks that passed
\* in its window (no increment is lost).
C3_AtomicCheckAndIncrement ==
    /\ okMinute <= perMinute
    /\ okDay <= perDay
    /\ requestCount.minute = okMinute
    /\ requestCount.day = okDay

\* A call has just been refused at the minute limit while the handler of
\* another call is suspended in its fetchWithRetry.
C3_Witness ==
    /\ lastCheck = "limited"
    /\ okMinute = perMinute
    /\ \E p, q \in Handlers :
          /\ p # q
          /\ pc[p] # "idle"
          /\ call[p].name \in PipelineTools
          /\ resp[q].text = RateLimitPayload.text

\* C4: a step in which checkRateLimit throws is the whole of a tool call: the
\* call's handler is idle again, it has issued no HTTP request, no handler has
\* begun a fetch, and the call's payload has isError true and a text that
\* starts with "Error: ".
C4_RateLimitStopsPipeline ==
    [][lastCheck' = "limited" =>
          /\ started' = started + 1
          /\ \A p \in Handlers : pc'[p] = pc[p] /\ sent'[p] = sent[p]
          /\ \E p \in Handlers :
                /\ pc[p] = "idle"
                /\ resp'[p].req.name \in PipelineTools
                /\ resp'[p].isError
                /\ Head(resp'[p].text) = "Error: "
                /\ resp'[p] = [NoResp EXCEPT !.req = resp'[p].req, !.isError = TRUE,
                                             !.limited = TRUE,
                                             !.text = <<"Error: ">> \o RateLimitMsg]]_vars

\* A history call has just been refused by the rate limiter.
C4_Witness ==
    /\ lastCheck = "limited"
    /\ \E p \in Handlers :
          /\ resp[p].req.name = "yahoo_stock_history"
          /\ resp[p].isError
          /\ resp[p].text = RateLimitPayload.text
          /\ ~resp[p].sent

\* The attempts of handler p's fetchWithRetry that failed by a thrown error.
IsThrow(o) == o.kind = "throw"
IsRetried(o) == o.kind = "throw" \/ o.status = 429

\* C5: when the first k attempts (k < 3) fail by a thrown error and the next
\* returns a response other than 429, fetchWithRetry returns that response,
\* after exactly k waits, the wait after failed attempt i being 2^i seconds.
C5_BackoffAfterThrows ==
    \A p \in Handlers :
        LET k == Len(attempts[p]) - 1 IN
        (/\ attempts[p] # <<>>
         /\ \A i \in 1 .. k : IsThrow(attempts[p][i])
         /\ ~IsRetried(Last(attempts[p])))
        => /\ k < maxRetries
           /\ fetched[p] = FetchReturned(Last(attempts[p]))
           /\ pc[p] = "idle"
           /\ Len(waits[p]) = k
           /\ \A i \in 1 .. k : waits[p][i] = (2 ^ (i - 1)) * 1000

\* Two attempts threw and the third returned a response: two waits, 1 s and 2 s.
C5_Witness ==
    /\ Len(attempts[1]) = 3
    /\ IsThrow(attempts[1][1])
    /\ IsThrow(attempts[1][2])
    /\ fetched[1].kind = "response"
    /\ waits[1] = <<1000, 2000>>

\* C6: a response whose status is not 429 ends fetchWithRetry: it is the last
\* attempt, it is what the call returns, whatever its status, and no wait
\* follows it; and the response the call returns is the first such attempt.
C6_ReturnsFirstNon429 ==
    \A p \in Handlers :
        /\ \A i \in 1 .. Len(attempts[p]) :
              (attempts[p][i].kind = "response" /\ attempts[p][i].status # 429)
              => /\ i = Len(attempts[p])
                 /\ fetched[p] = FetchReturned(attempts[p][i])
                 /\ Len(waits[p]) = i - 1
                 /\ pc[p] = "idle"
        /\ fetched[p].kind = "response"
              => /\ attempts[p] # <<>>
                 /\ fetched[p] = FetchReturned(Last(attempts[p]))
                 /\ \A i \in 1 .. Len(attempts[p]) - 1 : IsRetried(attempts[p][i])

\* After one 429, a 500 response has been returned to the caller.
C6_Witness ==
    /\ fetched[1].kind = "response"
    /\ fetched[1].status = 500
    /\ Len(attempts[1]) = 2
    /\ Len(waits[1]) = 1

\* The transport errors thrown by the attempts, in order.
RECURSIVE ThrownErrors(_)
ThrownErrors(seq) ==
    IF seq = <<>> THEN <<>>
    ELSE IF IsThrow(Head(seq)) THEN <<Head(seq).error>> \o ThrownErrors(Tail(seq))
    ELSE ThrownErrors(Tail(seq))

C7_Bounded ==
    \A p \in Handlers :
        /\ Len(attempts[p]) <= maxRetries
        /\ fetched[p].kind = "throw"
              => /\ Len(attempts[p]) = maxRetries
                 /\ \A i \in 1 .. maxRetries : IsRetried(attempts[p][i])
                 /\ fetched[p].error =
                       IF ThrownErrors(attempts[p]) # <<>>
                         THEN Last(ThrownErrors(attempts[p]))
                         ELSE MaxRetriesMsg
        /\ (Len(attempts[p]) = maxRetries /\ pc[p] = "idle"
            /\ \A i \in 1 .. maxRetries : IsRetried(attempts[p][i]))
              => fetched[p].kind = "throw"

\* C7: fetchWithRetry makes at most maxRetries attempts; when all of them fail
\* it throws after exactly maxRetries attempts, the most recent transport error
\* if an attempt threw one and "Maximum retries exceeded" if all were 429; and,
\* every fetch settling and every timer firing, the call ends.
C7_BoundedAndTerminates ==
    /\ []C7_Bounded
    /\ <>(fetched[1].kind # "none")

\* Two attempts threw, the third was a 429: the call has thrown the second
\* attempt's error.
C7_Witness ==
    /\ fetched[1] = FetchThrew("ETIMEDOUT")
    /\ Len(attempts[1]) = maxRetries
    /\ attempts[1][1] = Rejected("ECONNRESET")
    /\ attempts[1][2] = Rejected("ETIMEDOUT")
    /\ attempts[1][3].status = 429

\* C8: a quote call whose fetchWithRetry returned a non-2xx response, and a
\* market-data call all of whose fetchWithRetry calls did, return a text payload
\* (isError false) with the "Unable to retrieve" message; a history call whose
\* fetchWithRetry returned a non-2xx response returns an error payload with the
\* status code and the status text.
C8_UpstreamErrorAsymmetry ==
    \A p \in Handlers :
        LET r == resp[p] IN
        (r.sent /\ r.refusedOnly) =>
            /\ r.status \notin {0, 429}
            /\ r.req.name = "yahoo_stock_quote"
                  => ~r.isError /\ r.text = QuoteUnableText(Symbol(r.req))
            /\ r.req.name = "yahoo_market_data"
                  => ~r.isError /\ r.text = MarketUnableText
            /\ r.req.name = "yahoo_stock_history"
                  => /\ r.isError
                     /\ r.text = <<"Error: ", "Failed to fetch stock history: ", "API error: ",
                                   StatusStr(r.status), " ", StatusText(r.status)>>

\* A history call has ended with the error of a 404 and a quote call with the
\* soft message after a 500.
C8_Witness ==
    \E p, q \in Handlers :
        /\ resp[p].req.name = "yahoo_stock_history"
        /\ resp[p].refusedOnly /\ resp[p].status = 404 /\ resp[p].isError
        /\ resp[q].req.name = "yahoo_stock_quote"
        /\ resp[q].refusedOnly /\ resp[q].status = 500 /\ ~resp[q].isError

\* C9: a market-data call that passed the rate limit fetches every index of its
\* list, whatever the earlier ones ended with, raises no error, and returns the
\* records of exactly the indices whose fetch succeeded, in fetch order; with
\* none it returns the "Unable to retrieve market data" message.
C9_MarketBatchSurvivesFailures ==
    \A p \in Handlers :
        LET r == resp[p] IN
        (r.req.name = "yahoo_market_data" /\ r.text # RateLimitPayload.text /\ r.req # NoCall)
        => /\ ~r.isError
           /\ r.asked = ResolveIndices(r.req)
           /\ r.results = r.good
           /\ r.text = IF r.good = <<>> THEN MarketUnableText ELSE formatMarketData(r.good)

\* Of the three default indices the second failed: the result holds the first
\* and the third.
C9_Witness ==
    \E p \in Handlers :
        /\ resp[p].req.name = "yahoo_market_data"
        /\ resp[p].asked = DefaultIndices
        /\ resp[p].results = <<"^GSPC", "^IXIC">>
        /\ ~resp[p].isError

\* C10 as stated: a market-data call that passed the rate limit with indices
\* omitted or an empty list fetches ^GSPC, ^DJI and ^IXIC, in that order.
C10_DefaultWhenOmittedOrEmpty ==
    \A p \in Handlers :
        LET r == resp[p] IN
        (/\ r.req.name = "yahoo_market_data"
         /\ r.req.hasArgs
         /\ r.req.indices \in {Absent, {<<>>}}
         /\ r.text # RateLimitPayload.text)
        => r.asked = DefaultIndices

\* The error the handler returns for a history call with an invalid period,
\* or with a valid period and an invalid interval.
InvalidArgumentText(req) ==
    IF ResolvePeriod(req) \notin Range(validPeriods)
      THEN <<"Error: ", "Failed to fetch stock history: ", "Invalid period: ",
             ResolvePeriod(req), ". Valid periods are: ">> \o validPeriods
      ELSE <<"Error: ", "Failed to fetch stock history: ", "Invalid interval: ",
             ResolveInterval(req), ". Valid intervals are: ">> \o validIntervals
HasInvalidArgument(req) ==
    /\ req.name = "yahoo_stock_history"
    /\ \/ ResolvePeriod(req) \notin Range(validPeriods)
       \/ ResolveInterval(req) \notin Range(validIntervals)

\* C11 as stated: every history call with an invalid period or an invalid
\* interval ends at once with the error that names the value and lists the
\* allowed ones, and issues no HTTP request.
C11_InvalidArgumentAlways ==
    \A p \in Handlers :
        /\ ~HasInvalidArgument(call[p])
        /\ HasInvalidArgument(resp[p].req)
              => /\ resp[p].isError
                 /\ ~resp[p].sent
                 /\ resp[p].text = InvalidArgumentText(resp[p].req)

\* C11 as amended: the same for the history calls that carry a symbol and
\* whose rate-limit check passed; a call the rate limiter refuses ends with
\* the rate limiter's error, and a call without a symbol with "Invalid
\* arguments for yahoo_stock_history", both without an HTTP request.
C11_InvalidArgument ==
    \A p \in Handlers :
        /\ ~HasInvalidArgument(call[p])
        /\ HasInvalidArgument(resp[p].req)
              => /\ resp[p].isError
                 /\ ~resp[p].sent
                 /\ resp[p].text =
                       IF resp[p].req.symbol = Absent
                         THEN <<"Error: ", "Invalid arguments for yahoo_stock_history">>
                       ELSE IF resp[p].limited THEN RateLimitPayload.text
                       ELSE InvalidArgumentText(resp[p].req)

\* A history call with a valid period and the interval "2d" has passed the
\* rate limit and ended with the error naming "2d".
C11_Witness ==
    \E p \in Handlers :
        /\ resp[p].req.name = "yahoo_stock_history"
        /\ resp[p].req.interval = {"2d"}
        /\ resp[p].req.period = {"5d"}
        /\ ~resp[p].limited
        /\ resp[p].isError
        /\ resp[p].text[3] = "Invalid interval: "
        /\ resp[p].text[4] = "2d"
        /\ ~resp[p].sent

\* ------------------------------------------------------------------------
\* Properties of the formatters
\* ------------------------------------------------------------------------
\* The position of the table's ruler in a history text, and the table's rows:
\* each row ends with a line break of its own.
RulerAt(text) == CHOOSE i \in DOMAIN text : text[i] = TableRuler
RowCount(text) == Cardinality({i \in DOMAIN text : i > RulerAt(text) /\ text[i] = "\n"})
HistoryDone == formatIn.fn = "formatStockHistory" /\ formatOut # <<>>

\* C12 as stated: whatever the length of the series, the table formatStockHistory
\* renders has at most 10 rows.
C12_AtMostTenRows ==
    HistoryDone => RowCount(formatOut) <= 10

QuoteDone == formatIn.fn = "quoteReport" /\ formatOut # <<>> /\ formatIn.result.meta # {}

\* C13 as stated: in the report of a result with a meta block, the change and
\* the change percent are the price less the previous close (and that over the
\* previous close) when both are present, and the Change line shows "N/A" for
\* both when the price or the previous close is missing.
C13_DerivedOnlyWhenPresent ==
    QuoteDone =>
        LET meta == TheValue(formatIn.result.meta)
            price == meta.regularMarketPrice
            previousClose == meta.chartPreviousClose
        IN  IF Missing(price) \/ Missing(previousClose)
              THEN formatOut[8] = "N/A" /\ formatOut[10] = "N/A"
              ELSE formatOut[8] = toLocaleString(Num(price.n - previousClose.n))

\* C14: the table of a series of n points has one row for each of the points
\* 0, s, 2s, ... below n, s = max(1, floor(n / 10)), in that order and no other
\* (for n = 100, ten rows: the points 0, 10, ..., 90); and the summary line,
\* present when the series is not empty and the closes of its first and last
\* points are defined, shows the last point's close less the first point's,
\* and that difference as a percentage of the first point's close.
C14_RowsAndSummary ==
    HistoryDone =>
        LET data == formatIn.result
            n == Len(data.timestamp)
            s == IF n \div 10 >= 1 THEN n \div 10 ELSE 1
            k == (n + s - 1) \div s
            r == RulerAt(formatOut)
            first == At(data.quote.close, 0)
            last == At(data.quote.close, n - 1)
            rest == SubSeq(formatOut, r + RowPieces * k + 1, Len(formatOut))
        IN  /\ RowCount(formatOut) = k
            /\ \A j \in 0 .. k - 1 :
                  /\ formatOut[r + RowPieces * j + 1] = toLocaleDateString(data.timestamp[j * s + 1])
                  /\ formatOut[r + RowPieces * j + 9] = FixedOrNA(At(data.quote.close, j * s))
                  /\ formatOut[r + RowPieces * j + RowPieces] = "\n"
            /\ n = 100 => s = 10 /\ k = 10
            /\ rest # <<>> <=> (n > 0 /\ first # Undefined /\ last # Undefined)
            /\ rest # <<>> =>
                  rest = <<"\nPrice Change: $", toFixed2(Minus(last, first)), " (",
                           toFixed2(Times100(Over(Minus(last, first), first))), "%)">>

\* A series of 100 points, closing at 20 first, at 15 between and at 30 last,
\* has been rendered: ten rows, the last of them the point 90 with its close
\* of 15, and a summary of +10.00 (50.00%).
C14_Witness ==
    /\ HistoryDone
    /\ Len(formatIn.result.timestamp) = 100
    /\ formatIn.result.quote.close[1] = Num(20)
    /\ formatIn.result.quote.close[100] = Num(30)
    /\ RowCount(formatOut) = 10
    /\ formatOut[RulerAt(formatOut) + RowPieces * 9 + 1] = toLocaleDateString((FirstDay + 90) * 86400)
    /\ formatOut[RulerAt(formatOut) + RowPieces * 9 + 9] = "15.00"
    /\ SubSeq(formatOut, Len(formatOut) - 4, Len(formatOut))
          = <<"\nPrice Change: $", "10.00", " (", "50.00", "%)">>

\* ------------------------------------------------------------------------
\* Properties of the server, continued
\* ------------------------------------------------------------------------
\* C15 as stated: a step in which fetchMarketData starts the fetch of an index
\* starts the fetch of one index only, starts it when the fetch of the index
\* before it has settled (the handler was awaiting it until this step), and
\* calls checkRateLimit, which passes, before it: one check for each index.
C15_PerIndexRateLimitCheck ==
    [][\A p \in Handlers :
          Len(asked'[p]) > Len(asked[p]) =>
              /\ Len(asked'[p]) = Len(asked[p]) + 1
              /\ pc'[p] = "fetch"
              /\ asked[p] # <<>> => pc[p] \in {"fetch", "backoff"}
              /\ lastCheck' = "ok"]_vars

\* C16: the checks that passed in any 60 seconds are at most 40, twice the
\* per-minute limit: at every moment, at most 40 checks have passed in the 60
\* seconds up to it (both ends included).
C16_AtMostTwiceThePerMinuteLimit ==
    /\ Len(recent) <= 2 * perMinute
    /\ \A i \in DOMAIN recent : recent[i] >= 0 /\ recent[i] <= MinuteMs

\* 40 checks have passed within two milliseconds: 20 at the end of a minute
\* window and 20 in the window that the next call, a millisecond later, opened.
C16_Witness ==
    /\ Len(recent) = 2 * perMinute
    /\ recent[1] = 1
    /\ recent[2 * perMinute] = 0
    /\ okMinute = perMinute
    /\ lastCheck = "ok"

\* A call of a pipeline whose checkRateLimit passed has ended with resp[p].
PassedCall(r) ==
    /\ r.req.name \in PipelineTools
    /\ Dispatch(r.req).kind = "fetch"
    /\ ~r.limited

\* C17: a step in which a pipeline's checkRateLimit passes leaves each counter
\* one above what it was (above 0 when the counter's window had expired); no
\* other step changes a counter; so the step in which a call that passed the
\* check ends, with whatever result, is either the step of its check (a history
\* call with an invalid period or interval, before any HTTP request) or a step
\* that leaves the counters as they are (the end of its fetches, the retries
\* exhausted or not): nothing is given back.
C17_IncrementNeverRefunded ==
    [][/\ lastCheck' = "ok" =>
             /\ started' = started + 1
             /\ requestCount'.minute
                   = (IF sinceMinuteReset > MinuteMs THEN 0 ELSE requestCount.minute) + 1
             /\ requestCount'.day
                   = (IF sinceDayReset > DayMs THEN 0 ELSE requestCount.day) + 1
       /\ lastCheck' = "none" => requestCount' = requestCount
       /\ \A p \in Handlers :
             (resp'[p] # resp[p] /\ PassedCall(resp'[p])) =>
                 IF pc[p] = "idle"
                   THEN lastCheck' = "ok" /\ ~resp'[p].sent
                   ELSE lastCheck' = "none" /\ resp'[p].sent /\ requestCount' = requestCount]_vars

\* Two calls have ended, a history call rejected for its period and a quote
\* call whose fetch exhausted its retries: both counters stand at 2.
C17_Witness ==
    /\ requestCount = [minute |-> 2, day |-> 2]
    /\ \E p, q \in Handlers :
          /\ resp[p].req.name = "yahoo_stock_history"
          /\ PassedCall(resp[p])
          /\ resp[p].text = InvalidArgumentText(resp[p].req)
          /\ resp[p].req.period = {"1week"}
          /\ resp[q].req.name = "yahoo_stock_quote"
          /\ PassedCall(resp[q])
          /\ resp[q].text = <<"Error: ", "Failed to fetch stock quote: ", "ECONNRESET">>

====
